---- MODULE Spec2Model ----
(***************************************************************************)
(* Kala Sahayak: the listing-generation pipeline of app.py (photo stage,   *)
(* content stage, finalization, display) and the agentic variant of        *)
(* crew_mvp.py (five tools driven by three agents).                        *)
(*                                                                         *)
(* Python values are modelled as tagged records (JSON values); a dict is a *)
(* function from its keys to such values.  Amounts of money are integers   *)
(* in hundredths, which is what the ':.2f' format of app.py displays.      *)
(***************************************************************************)
EXTENDS Integers, Sequences, FiniteSets, TLC

\* ---------------------------------------------------------------- bounds
\* Largest number of decimal digits of a hash value that is explored.
MaxDigits == 7
\* Longest artisan note (in characters) that is explored.
MaxNoteLen == 2
\* Number of tool invocations the publishing agent may make in one run.
MaxAgentSteps == 3
\* Number of required keys a dict handed to a tool may lack.
MaxMissing == 1

\* ------------------------------------------------------- program constants
\* str(hash(artisan_note))[:6]
SuffixWidth == 6
\* hash(description) % 10000
ProductIdModulus == 10000
\* price = 75.0 + len/25.0, in hundredths: 7500 + 4 * len
BasePriceCents == 7500
CentsPerChar == 4
\* len("Inspired by the artisan's words: '" + "', this piece is a ... craftsmanship.")
StoryFrameLen == 92

\* ------------------------------------------------------------ JSON values
\* t: the type, n: the number (or length of a list), s: the text, q: further
\* characters appended to the text (a computed suffix)
JNull == [t |-> "null", n |-> 0, s |-> "", q |-> <<>>]
JNum(c) == [t |-> "number", n |-> c, s |-> "", q |-> <<>>]
JBool(b) == [t |-> "bool", n |-> IF b THEN 1 ELSE 0, s |-> "", q |-> <<>>]
JStr(x) == [t |-> "string", n |-> 0, s |-> x, q |-> <<>>]
\* the string x followed by the characters of the sequence suffix
JCat(x, suffix) == [t |-> "string", n |-> 0, s |-> x, q |-> suffix]
\* a list of k strings; s names the list
JList(k, x) == [t |-> "list", n |-> k, s |-> x, q |-> <<>>]
\* marks a key that a dict does not have
JAbsent == [t |-> "absent", n |-> 0, s |-> "", q |-> <<>>]

EmptyDict == [k \in {} |-> JNull]

\* dict.update(other) for two dicts
DictUpdate(d, e) ==
    [k \in (DOMAIN d) \cup (DOMAIN e) |-> IF k \in DOMAIN e THEN e[k] ELSE d[k]]

\* d[key] = value
DictSet(d, key, value) ==
    [k \in (DOMAIN d) \cup {key} |-> IF k = key THEN value ELSE d[k]]

\* Python truthiness of a value
Truthy(v) ==
    CASE v.t = "null" -> FALSE
      [] v.t = "number" -> v.n # 0
      [] v.t = "bool" -> v.n = 1
      [] v.t = "string" -> v.s # "" \/ v.q # <<>>
      [] v.t = "list" -> v.n > 0
      [] OTHER -> TRUE

\* isinstance(v, (int, float)): bool is a subclass of int in Python
IsIntOrFloat(v) == v.t \in {"number", "bool"}

\* ------------------------------------------------------------------ files
FileNames == {"a.jpg"}

\* os.path.join("temp_uploads", uploaded_file.name)
UploadPath(name) ==
    CASE name = "a.jpg" -> "temp_uploads/a.jpg"
      [] OTHER -> "temp_uploads/b.jpg"

\* the processed path without the basename of the upload in it
ProcessedPath_flat(path) == "temp_uploads/processed_a.jpg"

\* os.path.join("temp_uploads", f"processed_{os.path.basename(image_path)}")
ProcessedPath(path) ==
    CASE path = "temp_uploads/a.jpg" -> "temp_uploads/processed_a.jpg"
      [] OTHER -> "temp_uploads/processed_b.jpg"

\* ------------------------------------------------------------ photo stage
\* What the remote background-removal service can answer.
RemoteOutcomes == {"200", "401", "403", "500", "exception"}

MsgKeyMissing == "Clipdrop API Key is missing. Please add it in the sidebar."
MsgNoFile == "The file path does not exist."
MsgInvalidKey == "Clipdrop API Error: Invalid API Key."
MsgHttp == "Clipdrop API Error: status - text"
MsgUnexpected == "An unexpected error occurred during background removal"

PhotoError(msg, calls) ==
    [result |-> [k \in {"error"} |-> JStr(msg)], calls |-> calls, written |-> {}]

\* remove_background without the os.path.exists check: the upload is
\* attempted for any path
remove_background_unchecked(api_key, image_path, exists, remote, writeOk) ==
    IF ~api_key THEN PhotoError(MsgKeyMissing, 0)
    ELSE IF remote = "exception" THEN PhotoError(MsgUnexpected, 1)
    ELSE IF remote \in {"401", "403"} THEN PhotoError(MsgInvalidKey, 1)
    ELSE IF remote # "200" THEN PhotoError(MsgHttp, 1)
    ELSE IF ~writeOk THEN PhotoError(MsgUnexpected, 1)
    ELSE [result |-> [k \in {"processed_image_path"} |->
                         JStr(ProcessedPath(image_path))],
          calls |-> 1,
          written |-> {ProcessedPath(image_path)}]

\* remove_background(image_path): the JSON object it returns, the number of
\* remote calls it made and the files it wrote.
remove_background(api_key, image_path, exists, remote, writeOk) ==
    IF ~api_key THEN PhotoError(MsgKeyMissing, 0)
    ELSE IF ~exists THEN PhotoError(MsgNoFile, 0)
    ELSE IF remote = "exception" THEN PhotoError(MsgUnexpected, 1)
    ELSE IF remote \in {"401", "403"} THEN PhotoError(MsgInvalidKey, 1)
    ELSE IF remote # "200" THEN PhotoError(MsgHttp, 1)
    ELSE IF ~writeOk THEN PhotoError(MsgUnexpected, 1)
    ELSE [result |-> [k \in {"processed_image_path"} |->
                         JStr(ProcessedPath(image_path))],
          calls |-> 1,
          written |-> {ProcessedPath(image_path)}]

\* ---------------------------------------------------------- content stage
\* The keys a reply of the language model may carry.
LlmKeys == {"description", "hashtags", "price", "error",
            "processed_image_path", "error_bg_removal"}

DescriptionOpts == {JAbsent, JStr("llm description")}
HashtagsOpts == {JAbsent, JList(5, "llm hashtags")}
PriceOpts == {JAbsent, JNum(4999), JStr("49.99 USD"), JBool(TRUE), JNull}
ErrorOpts == {JAbsent, JStr("llm error")}
ImagePathOpts == {JAbsent, JStr(""), JStr("llm.png")}
BgErrorOpts == {JAbsent, JStr("llm bg error")}

\* the JSON object with the given values, a key left out where JAbsent
MkObj(d, h, p, e, i, b) ==
    LET pick == [k \in LlmKeys |->
                   CASE k = "description" -> d
                     [] k = "hashtags" -> h
                     [] k = "price" -> p
                     [] k = "error" -> e
                     [] k = "processed_image_path" -> i
                     [] OTHER -> b]
    IN [k \in {x \in LlmKeys : pick[x].t # "absent"} |-> pick[k]]

\* Texts that are not a JSON object: not JSON at all, or a JSON value of
\* another type (representatives: null, 5, true, "an error", "plain", "",
\* ["error"], [], [1, 2]).
NonObjectKinds == {"malformed", "null", "number", "bool", "string_error",
                   "string_plain", "string_empty", "list_error", "list_empty",
                   "list_plain"}

\* a text: fenced says whether ``` markup surrounds it
Text(fenced, kind, obj) == [fenced |-> fenced, kind |-> kind, obj |-> obj]

MsgContent == "Error generating creative content"

\* Where the generation can raise: building the client, or the call itself.
RaiseAt == {"none", "setup", "invoke"}

\* generate_creative_content(artisan_note): the text it returns for the
\* model's reply, or the error object when the generation raised.
generate_creative_content(raisedAt, reply) ==
    IF raisedAt # "none"
    THEN Text(FALSE, "object", [k \in {"error"} |-> JStr(MsgContent)])
    ELSE Text(FALSE, reply.kind, reply.obj)

\* generate_creative_content calling the hosted model a second time after
\* a failed call
GenerationCalls_retry(raisedAt) ==
    IF raisedAt = "setup" THEN 0 ELSE IF raisedAt = "invoke" THEN 2 ELSE 1

\* number of calls of the hosted model made by generate_creative_content
GenerationCalls(raisedAt) == IF raisedAt = "setup" THEN 0 ELSE 1

\* json.loads(text) raises
LoadsRaises(text) == text.fenced \/ text.kind = "malformed"

\* '"error" in content_result' raises TypeError
InRaises(text) == text.kind \in {"null", "number", "bool"}

\* '"error" in content_result'
HasError(text) ==
    CASE text.kind = "object" -> "error" \in DOMAIN text.obj
      [] text.kind \in {"string_error", "list_error"} -> TRUE
      [] OTHER -> FALSE

\* final_results.update(content_result) raises
UpdateRaises(text) == text.kind \in {"string_plain", "list_plain"}

\* the fallback with no price at all instead of the price 0
ContentFallback_no_price ==
    [k \in {"description", "hashtags", "price"} |->
        CASE k = "description" -> JStr("N/A")
          [] k = "hashtags" -> JList(0, "")
          [] OTHER -> JNull]

ContentFallback ==
    [k \in {"description", "hashtags", "price"} |->
        CASE k = "description" -> JStr("N/A")
          [] k = "hashtags" -> JList(0, "")
          [] OTHER -> JNum(0)]

\* Task 2 of main after the stage returned text: whether an exception
\* escapes to the handler of main, and final_results afterwards.
MergeContent(results, text) ==
    IF LoadsRaises(text) \/ InRaises(text)
    THEN [raised |-> TRUE, recorded |-> FALSE, results |-> results]
    ELSE IF HasError(text)
    THEN [raised |-> FALSE, recorded |-> TRUE,
          results |-> DictUpdate(results, ContentFallback)]
    ELSE IF UpdateRaises(text)
    THEN [raised |-> TRUE, recorded |-> FALSE, results |-> results]
    ELSE [raised |-> FALSE, recorded |-> TRUE,
          results |-> IF text.kind = "object"
                      THEN DictUpdate(results, text.obj)
                      ELSE results]

\* ----------------------------------------------------------- finalization
DigitChars == <<"0", "1", "2", "3", "4", "5", "6", "7", "8", "9">>

RECURSIVE Digits(_)
Digits(n) ==
    IF n < 10 THEN <<DigitChars[n + 1]>>
    ELSE Digits(n \div 10) \o <<DigitChars[(n % 10) + 1]>>

\* str(n) for an integer n, as a sequence of characters
StrInt(n) == IF n < 0 THEN <<"-">> \o Digits(0 - n) ELSE Digits(n)

\* s[:w]
Prefix(s, w) == SubSeq(s, 1, IF Len(s) < w THEN Len(s) ELSE w)

UrlPrefix == "https://kalasahayk.com/gallery/artisan123/product_"

\* the mock URL without the [:6] slice
MockUrl_untruncated(h) == JCat(UrlPrefix, StrInt(h))

\* f"https://kalasahayk.com/gallery/artisan123/product_{str(hash(note))[:6]}"
MockUrl(h) == JCat(UrlPrefix, Prefix(StrInt(h), SuffixWidth))

RECURSIVE Rep(_)
\* the k-digit number 12...k
Rep(k) == IF k = 0 THEN 0 ELSE Rep(k - 1) * 10 + k

\* Values hash(artisan_note) is drawn from: every length of decimal string up
\* to MaxDigits digits, of both signs.
HashValues == {0} \cup {Rep(k) : k \in 1..MaxDigits}
                  \cup {0 - Rep(k) : k \in 1..MaxDigits}

\* ---------------------------------------------------------------- display
\* results.get(key), None when the key is absent
DictGet(d, key) == IF key \in DOMAIN d THEN d[key] ELSE JNull

NotRendered ==
    [rendered |-> FALSE, image |-> "", caption |-> "", bgError |-> JNull,
     priceLabel |-> "", priceCents |-> 0, aiNote |-> FALSE, aiCents |-> 0,
     description |-> JNull, hashtags |-> JNull, mock_url |-> JNull]

\* the value a number is displayed as by ':.2f', in hundredths (True is 1.00)
Amount(v) == IF v.t = "bool" THEN 100 * v.n ELSE v.n

\* display_results(results, user_price): what is rendered.  original is
\* st.session_state.original_image_path, disk the files that exist.
display_results(results, userPrice, original, disk) ==
    LET bgErr == "error_bg_removal" \in DOMAIN results
        processed_path == DictGet(results, "processed_image_path")
        found == Truthy(processed_path) /\ processed_path.s \in disk
        ai_price == DictGet(results, "price")
        hashtags == DictGet(results, "hashtags")
    IN [rendered |-> TRUE,
        image |-> IF ~bgErr /\ found THEN processed_path.s ELSE original,
        caption |-> IF bgErr THEN "Original Image (Unprocessed)"
                    ELSE IF found THEN "Background Removed"
                    ELSE "Original Image",
        bgError |-> IF bgErr THEN results["error_bg_removal"] ELSE JNull,
        priceLabel |-> IF userPrice > 0 THEN "Your Selling Price"
                       ELSE IF IsIntOrFloat(ai_price) THEN "AI Recommended Price"
                       ELSE "Recommended Price",
        priceCents |-> IF userPrice > 0 THEN userPrice
                       ELSE IF IsIntOrFloat(ai_price) THEN Amount(ai_price)
                       ELSE 0 - 1,
        aiNote |-> userPrice > 0 /\ IsIntOrFloat(ai_price),
        aiCents |-> IF userPrice > 0 /\ IsIntOrFloat(ai_price)
                    THEN Amount(ai_price) ELSE 0,
        description |-> IF "description" \in DOMAIN results
                        THEN results["description"]
                        ELSE JStr("Creative content generation failed."),
        hashtags |-> IF Truthy(hashtags) /\ hashtags.t = "list"
                     THEN hashtags ELSE JNull,
        mock_url |-> IF "mock_url" \in DOMAIN results
                     THEN results["mock_url"] ELSE JStr("N/A")]

\* ------------------------------------------------------------------ state
VARIABLES
    variant,              \* which program runs: "app" (app.py) or "agent" (crew_mvp.py)
    pc,                   \* position of main in app.py
    googleKey,            \* os.getenv("GOOGLE_API_KEY") is set
    clipdropKey,          \* os.getenv("CLIPDROP_API_KEY") is set
    noteLen,              \* len(artisan_note)
    user_price,           \* the number_input, in hundredths
    original_image_path,  \* st.session_state.original_image_path, "" when unset
    files,                \* the files that exist on disk
    final_results,        \* the dict of main
    status,               \* the st.status label: "none", "running", "complete", "error"
    events,               \* history: the steps of main, in order
    remoteCalls,          \* history: requests.post calls made
    genCalls,             \* history: chain.invoke calls made
    photo,                \* history: the photo stage's call (inputs and return)
    content,              \* history: the text the content stage returned
    noteHash,             \* hash(artisan_note) as evaluated by Task 3, 0 before
    shown                 \* what display_results rendered

appVars == <<pc, googleKey, clipdropKey, noteLen, user_price,
             original_image_path, files, final_results, status, events,
             remoteCalls, genCalls, photo, content, noteHash, shown>>

VARIABLES
    apc,             \* position of run_workflow in crew_mvp.py
    llm,             \* the module-level llm was initialised
    obedient,        \* the agents follow their instructions to the letter
    image_exists,    \* os.path.exists(image_path)
    artisan_id,      \* the artisan_id argument of run_workflow
    artisan_note,    \* len(artisan_note)
    darpan,          \* the image agent: done, and its output
    katha,           \* the narrative agent: done, raw JSON as answer, its output
    record,          \* the input of the publishing agent (a dict)
    toolLog,         \* history: the tools the publishing agent invoked, in order
    price,           \* the last observation of the Market Pricing Tool
    consolidated,    \* the last observation of the Data Consolidation Tool
    published,       \* the last observation of the Web Publishing Tool
    publishedIn,     \* history: the string last handed to the Web Publishing Tool
    rejected,        \* history: consolidate_data refused a dict for a missing key
    output           \* what run_workflow returns

agentVars == <<apc, llm, obedient, image_exists, artisan_id, artisan_note,
               darpan, katha, record, toolLog, price, consolidated,
               published, publishedIn, rejected, output>>

VARIABLES
    rname,      \* per concurrent request: uploaded_file.name
    rpc,        \* per request: position of main
    rsession,   \* per request: st.session_state.original_image_path, "" when unset
    disk,       \* per path of temp_uploads: whose upload the file holds
    inflight,   \* per request: the image bytes read and posted by remove_background
    rresults,   \* per request: final_results
    rshown      \* per request: the image display_results rendered

raceVars == <<rname, rpc, rsession, disk, inflight, rresults, rshown>>

vars == <<variant, appVars, agentVars, raceVars>>

\* number_input values explored, in hundredths
UserPrices == {0, 2500}

NoPhoto == [called |-> FALSE, exists |-> FALSE,
            result |-> EmptyDict, calls |-> 0, written |-> {}]
NoContent == [called |-> FALSE, raisedAt |-> "none",
              text |-> Text(FALSE, "malformed", EmptyDict)]

AppInit ==
    /\ pc = "form"
    /\ googleKey \in BOOLEAN
    /\ clipdropKey \in BOOLEAN
    /\ noteLen \in 0..MaxNoteLen
    /\ user_price \in UserPrices
    /\ original_image_path = ""
    /\ files = {}
    /\ final_results = EmptyDict
    /\ status = "none"
    /\ events = <<>>
    /\ remoteCalls = 0
    /\ genCalls = 0
    /\ photo = NoPhoto
    /\ content = NoContent
    /\ noteHash = 0
    /\ shown = NotRendered

KeysPresent == googleKey /\ clipdropKey

\* main: st.stop() when a key is missing
Stop ==
    /\ variant = "app"
    /\ pc = "form"
    /\ ~KeysPresent
    /\ pc' = "stopped"
    /\ UNCHANGED <<raceVars, noteHash, agentVars, variant, googleKey, clipdropKey, noteLen, user_price,
                   original_image_path, files, final_results, status, events,
                   remoteCalls, genCalls, photo, content, shown>>

\* main: a file is uploaded and saved under temp_uploads
Upload ==
    /\ variant = "app"
    /\ pc = "form"
    /\ KeysPresent
    /\ original_image_path = ""
    /\ \E name \in FileNames :
         /\ files' = files \cup {UploadPath(name)}
         /\ original_image_path' = UploadPath(name)
    /\ UNCHANGED <<raceVars, noteHash, agentVars, variant, pc, googleKey, clipdropKey, noteLen, user_price,
                   final_results, status, events, remoteCalls, genCalls,
                   photo, content, shown>>

\* the environment removes a file of the scratch directory before the
\* program looks for it: the upload before remove_background, the processed
\* image before display_results
EnvDelete ==
    /\ variant = "app"
    /\ \E f \in files :
         /\ \/ pc = "form" /\ f = original_image_path
            \/ pc = "render" /\ f = ProcessedPath(original_image_path)
         /\ files' = files \ {f}
    /\ UNCHANGED <<raceVars, noteHash, agentVars, variant, pc, googleKey, clipdropKey, noteLen, user_price,
                   original_image_path, final_results, status, events,
                   remoteCalls, genCalls, photo, content, shown>>

\* main: the Generate Listing button, with an upload and a non-empty note
Submit ==
    /\ variant = "app"
    /\ pc = "form"
    /\ KeysPresent
    /\ original_image_path # ""
    /\ noteLen > 0
    /\ pc' = "task1"
    /\ final_results' = EmptyDict
    /\ status' = "running"
    /\ UNCHANGED <<raceVars, noteHash, agentVars, variant, googleKey, clipdropKey, noteLen, user_price,
                   original_image_path, files, events, remoteCalls, genCalls,
                   photo, content, shown>>

\* main, Task 1: remove_background and the recording of its result
Task1 ==
    /\ variant = "app"
    /\ pc = "task1"
    /\ \E remote \in RemoteOutcomes, writeOk \in BOOLEAN :
         LET exists == original_image_path \in files
             r == remove_background(clipdropKey, original_image_path,
                                    exists, remote, writeOk)
         IN /\ photo' = [called |-> TRUE, exists |-> exists,
                         result |-> r.result, calls |-> r.calls,
                         written |-> r.written]
            /\ remoteCalls' = remoteCalls + r.calls
            /\ files' = files \cup r.written
            /\ final_results' =
                 IF "error" \in DOMAIN r.result
                 THEN DictSet(DictSet(final_results, "processed_image_path",
                                      JStr(original_image_path)),
                              "error_bg_removal", r.result["error"])
                 ELSE DictSet(final_results, "processed_image_path",
                              r.result["processed_image_path"])
    /\ events' = events \o <<"photo_call", "photo_recorded">>
    /\ pc' = "task2"
    /\ UNCHANGED <<raceVars, noteHash, agentVars, variant, googleKey, clipdropKey, noteLen, user_price,
                   original_image_path, status, genCalls, content, shown>>

\* main, Task 2: generate_creative_content and the merge of its result;
\* an exception goes to the handler of main, which skips Task 3
Task2 ==
    /\ variant = "app"
    /\ pc = "task2"
    /\ \E raisedAt \in RaiseAt, fenced \in BOOLEAN :
       \E reply \in {Text(fenced, k, EmptyDict) : k \in NonObjectKinds} \cup
                    {Text(fenced, "object", MkObj(d, h, p, e, i, b)) :
                        d \in DescriptionOpts, h \in HashtagsOpts,
                        p \in PriceOpts, e \in ErrorOpts,
                        i \in ImagePathOpts, b \in BgErrorOpts} :
         LET text == generate_creative_content(raisedAt, reply)
             m == MergeContent(final_results, text)
         IN /\ content' = [called |-> TRUE, raisedAt |-> raisedAt, text |-> text]
            /\ genCalls' = genCalls + GenerationCalls(raisedAt)
            /\ final_results' = m.results
            /\ events' = events \o (IF m.recorded
                                    THEN <<"content_call", "content_recorded">>
                                    ELSE <<"content_call">>)
            /\ pc' = IF m.raised THEN "render" ELSE "task3"
            /\ status' = IF m.raised THEN "error" ELSE status
    /\ UNCHANGED <<raceVars, noteHash, agentVars, variant, googleKey, clipdropKey, noteLen, user_price,
                   original_image_path, files, remoteCalls, photo, shown>>

\* main, Task 3: the mock URL from the hash of the note
Task3 ==
    /\ variant = "app"
    /\ pc = "task3"
    /\ \E h \in HashValues :
         /\ noteHash' = h
         /\ final_results' = DictSet(final_results, "mock_url", MockUrl(h))
    /\ events' = events \o <<"finalize">>
    /\ status' = "complete"
    /\ pc' = "render"
    /\ UNCHANGED <<raceVars, agentVars, variant, googleKey, clipdropKey, noteLen, user_price,
                   original_image_path, files, remoteCalls, genCalls, photo,
                   content, shown>>

\* main: 'if final_results: display_results(final_results, user_price)'
Render ==
    /\ variant = "app"
    /\ pc = "render"
    /\ shown' = IF final_results # EmptyDict
                THEN display_results(final_results, user_price,
                                     original_image_path, files)
                ELSE shown
    /\ events' = events \o <<"display">>
    /\ pc' = "shown"
    /\ UNCHANGED <<raceVars, noteHash, agentVars, variant, googleKey, clipdropKey, noteLen, user_price,
                   original_image_path, files, final_results, status,
                   remoteCalls, genCalls, photo, content>>

\* ------------------------------------------------- crew_mvp.py: the tools
MsgNoImage == "Error: Image path does not exist."
EnhancedName == "processed_product_image.jpg"

\* enhance_image(image_path): the string it returns; it calls no service
\* and writes no file
enhance_image(exists) == IF ~exists THEN MsgNoImage ELSE EnhancedName

\* len(story) of generate_narrative for a note of the given length
StoryLen(note_len) == StoryFrameLen + note_len

\* generate_narrative(artisan_note): the JSON object it returns
generate_narrative(note_len) ==
    [k \in {"product_description", "hashtags"} |->
        IF k = "product_description" THEN JStr("story")
        ELSE JList(4, "#Handmade #ArtisanCraft #IndianHeritage #SupportLocal")]

\* recommend_price(product_description), in hundredths, for a description
\* of the given length: round(75.0 + len / 25.0, 2)
recommend_price(len) == JNum(BasePriceCents + CentsPerChar * len)

RequiredKeys == {"artisan_id", "enhanced_image_path", "description",
                 "hashtags", "price"}

MsgNotDict == "Error: Input is not a valid Python dictionary string."
MsgMissingKey == "Error: The parsed dictionary is missing one of the required keys"

\* A string handed to a tool: kind is "garbage" (no literal, no JSON),
\* "nondict" (a literal or JSON value that is no dict) or "dict".
Str(kind, obj) == [kind |-> kind, obj |-> obj]

\* consolidate_data requiring a key 'image_path' that no record carries
consolidate_data_wrong_key(data_string) ==
    IF data_string.kind # "dict"
    THEN [ok |-> FALSE, msg |-> MsgNotDict, named |-> {},
          out |-> Str("garbage", EmptyDict)]
    ELSE IF ~(\A key \in (RequiredKeys \cup {"image_path"}) :
                 key \in DOMAIN data_string.obj)
    THEN [ok |-> FALSE, msg |-> MsgMissingKey, named |-> RequiredKeys,
          out |-> Str("garbage", EmptyDict)]
    ELSE [ok |-> TRUE, msg |-> "", named |-> {},
          out |-> Str("dict", data_string.obj)]

\* consolidate_data(data_string): ok with the JSON text of the dict, or an
\* error string; named are the keys the error string lists.  For a dict of
\* strings, lists of strings and numbers, ast.literal_eval followed by
\* json.dumps keeps the keys and the values; any text that is no Python
\* literal, or a literal that is no dict, is refused.
consolidate_data(data_string) ==
    IF data_string.kind # "dict"
    THEN [ok |-> FALSE, msg |-> MsgNotDict, named |-> {},
          out |-> Str("garbage", EmptyDict)]
    ELSE IF ~(\A key \in RequiredKeys : key \in DOMAIN data_string.obj)
    THEN [ok |-> FALSE, msg |-> MsgMissingKey, named |-> RequiredKeys,
          out |-> Str("garbage", EmptyDict)]
    ELSE [ok |-> TRUE, msg |-> "", named |-> {},
          out |-> Str("dict", data_string.obj)]

GalleryPrefix == "https://www.kalasahayk.com/gallery/"

NoPublish == [status |-> "none", prefix |-> "", artisan_id |-> JNull,
              product_id |-> 0]

\* hash(x) raises TypeError: lists and dicts are unhashable
Unhashable(v) == v.t = "list"

\* publish_to_web_gallery reading data["artisan_id"] without the default
publish_no_default(final_product_json, h) ==
    IF final_product_json.kind # "dict"
    THEN [status |-> "Error publishing", prefix |-> "", artisan_id |-> JNull,
          product_id |-> 0]
    ELSE LET data == final_product_json.obj
             description == IF "description" \in DOMAIN data
                            THEN data["description"] ELSE JStr("")
         IN IF Unhashable(description) \/ "artisan_id" \notin DOMAIN data
            THEN [status |-> "Error publishing", prefix |-> "",
                  artisan_id |-> JNull, product_id |-> 0]
            ELSE [status |-> "SUCCESS",
                  prefix |-> GalleryPrefix,
                  artisan_id |-> data["artisan_id"],
                  product_id |-> IF description = JStr("") THEN 0
                                 ELSE h % ProductIdModulus]

\* publish_to_web_gallery(final_product_json), h being the hash of a
\* non-empty description: "SUCCESS: Product live at <url>" or
\* "Error publishing: ..."
publish_to_web_gallery(final_product_json, h) ==
    IF final_product_json.kind # "dict"
    THEN [status |-> "Error publishing", prefix |-> "", artisan_id |-> JNull,
          product_id |-> 0]
    ELSE LET data == final_product_json.obj
             description == IF "description" \in DOMAIN data
                            THEN data["description"] ELSE JStr("")
         IN IF Unhashable(description)
            THEN [status |-> "Error publishing", prefix |-> "",
                  artisan_id |-> JNull, product_id |-> 0]
            ELSE [status |-> "SUCCESS",
                  prefix |-> GalleryPrefix,
                  artisan_id |-> IF "artisan_id" \in DOMAIN data
                                 THEN data["artisan_id"]
                                 ELSE JStr("unknown_artisan"),
                  product_id |-> IF description = JStr("") THEN 0
                                 ELSE h % ProductIdModulus]

\* prepare_for_publishing(results): the input of the publishing agent
prepare_for_publishing(id, visual, narrative) ==
    [k \in {"artisan_id", "enhanced_image_path", "description", "hashtags"} |->
        CASE k = "artisan_id" -> JStr(id)
          [] k = "enhanced_image_path" -> JStr(visual)
          [] k = "description" -> narrative["product_description"]
          [] OTHER -> narrative["hashtags"]]

\* ------------------------------------------- crew_mvp.py: the workflow
ArtisanIds == {"artisan_lc8765", "artisan123"}

\* lengths of the note read from the note file: empty, or the longest
NoteLens == {0, MaxNoteLen}

NoConsolidation == [ok |-> FALSE, msg |-> "", named |-> {},
                    out |-> Str("garbage", EmptyDict)]

NoNarrative == [k \in {"product_description", "hashtags"} |-> JNull]

AgentInit ==
    /\ apc = "start"
    /\ llm \in BOOLEAN
    /\ obedient \in BOOLEAN
    /\ image_exists \in BOOLEAN
    /\ artisan_id \in ArtisanIds
    /\ artisan_note \in NoteLens
    /\ darpan = [done |-> FALSE, out |-> ""]
    /\ katha = [done |-> FALSE, raw |-> FALSE, out |-> NoNarrative]
    /\ record = EmptyDict
    /\ toolLog = <<>>
    /\ price = JNull
    /\ consolidated = NoConsolidation
    /\ published = NoPublish
    /\ publishedIn = Str("garbage", EmptyDict)
    /\ rejected = FALSE
    /\ output = NoPublish

\* the state of the program that does not run
AppIdle ==
    /\ pc = "off" /\ googleKey = FALSE /\ clipdropKey = FALSE /\ noteLen = 0
    /\ user_price = 0 /\ original_image_path = "" /\ files = {}
    /\ final_results = EmptyDict /\ status = "none" /\ events = <<>>
    /\ remoteCalls = 0 /\ genCalls = 0 /\ photo = NoPhoto
    /\ content = NoContent /\ noteHash = 0 /\ shown = NotRendered

AgentIdle ==
    /\ apc = "off" /\ llm = FALSE /\ obedient = FALSE /\ image_exists = FALSE
    /\ artisan_id = "" /\ artisan_note = 0
    /\ darpan = [done |-> FALSE, out |-> ""]
    /\ katha = [done |-> FALSE, raw |-> FALSE, out |-> NoNarrative]
    /\ record = EmptyDict /\ toolLog = <<>> /\ price = JNull
    /\ consolidated = NoConsolidation /\ published = NoPublish
    /\ publishedIn = Str("garbage", EmptyDict)
    /\ rejected = FALSE /\ output = NoPublish

\* run_workflow: 'if not llm: return "ERROR: ..."', else workflow.invoke
RunWorkflow ==
    /\ variant = "agent"
    /\ apc = "start"
    /\ IF ~llm
       THEN /\ output' = [NoPublish EXCEPT !.status = "ERROR: LLM not initialized"]
            /\ apc' = "done"
       ELSE /\ output' = output
            /\ apc' = "assign"
    /\ UNCHANGED <<raceVars, publishedIn, variant, appVars, llm, obedient, image_exists, artisan_id,
                   artisan_note, darpan, katha, record, toolLog, price,
                   consolidated, published, rejected>>

\* the image agent passes the path to the Image Enhancing Tool
Darpan ==
    /\ variant = "agent"
    /\ apc = "assign"
    /\ ~darpan.done
    /\ darpan' = [done |-> TRUE, out |-> enhance_image(image_exists)]
    /\ UNCHANGED <<raceVars, publishedIn, variant, appVars, apc, llm, obedient, image_exists,
                   artisan_id, artisan_note, katha, record, toolLog, price,
                   consolidated, published, rejected, output>>

\* the narrative agent passes the note to the Storytelling & Hashtag Tool;
\* an agent that does not follow its instructions may wrap the JSON in prose
Katha ==
    /\ variant = "agent"
    /\ apc = "assign"
    /\ ~katha.done
    /\ \E raw \in (IF obedient THEN {TRUE} ELSE BOOLEAN) :
         katha' = [done |-> TRUE, raw |-> raw,
                   out |-> generate_narrative(artisan_note)]
    /\ UNCHANGED <<raceVars, publishedIn, variant, appVars, apc, llm, obedient, image_exists,
                   artisan_id, artisan_note, darpan, record, toolLog, price,
                   consolidated, published, rejected, output>>

\* RunnableLambda(prepare_for_publishing): json.loads of the narrative
\* raises when it is not raw JSON, and run_workflow raises with it
Prepare ==
    /\ variant = "agent"
    /\ apc = "assign"
    /\ darpan.done /\ katha.done
    /\ IF katha.raw
       THEN /\ record' = prepare_for_publishing(artisan_id, darpan.out, katha.out)
            /\ apc' = "prasar"
       ELSE /\ record' = record
            /\ apc' = "raised"
    /\ UNCHANGED <<raceVars, publishedIn, variant, appVars, llm, obedient, image_exists, artisan_id,
                   artisan_note, darpan, katha, toolLog, price, consolidated,
                   published, rejected, output>>

\* the dict the publishing agent can build from its input and the price
FullRecord == DictSet(record, "price", IF price = JNull THEN JNum(0) ELSE price)

\* the same with a list as description
ListRecord == DictSet(FullRecord, "description", JList(1, "story"))

Restrict(d, K) == [k \in K |-> d[k]]

\* the strings an agent can hand to a tool
KeySets == {K \in SUBSET RequiredKeys :
               Cardinality(RequiredKeys \ K) <= MaxMissing}

ToolInputs ==
    {Str("garbage", EmptyDict), Str("nondict", EmptyDict)}
    \cup {Str("dict", Restrict(FullRecord, K)) : K \in KeySets}
    \cup {Str("dict", ListRecord)}

\* Values hash(description) is drawn from
DescriptionHashes == {0 - Rep(MaxDigits), Rep(MaxDigits)}

\* the publishing agent invokes the Market Pricing Tool (step 2)
PrasarPrice ==
    /\ variant = "agent"
    /\ apc = "prasar"
    /\ Len(toolLog) < MaxAgentSteps
    /\ obedient => toolLog = <<>>
    /\ \E len \in (IF obedient THEN {StoryLen(artisan_note)}
                   ELSE {0, StoryLen(artisan_note)}) :
         price' = recommend_price(len)
    /\ toolLog' = Append(toolLog, "price")
    /\ UNCHANGED <<raceVars, publishedIn, variant, appVars, apc, llm, obedient, image_exists,
                   artisan_id, artisan_note, darpan, katha, record,
                   consolidated, published, rejected, output>>

\* the publishing agent invokes the Data Consolidation Tool (step 4)
PrasarConsolidate ==
    /\ variant = "agent"
    /\ apc = "prasar"
    /\ Len(toolLog) < MaxAgentSteps
    /\ obedient => toolLog = <<"price">>
    /\ \E in \in (IF obedient
                  THEN {Str("dict", DictSet(record, "price", price))}
                  ELSE ToolInputs) :
         /\ consolidated' = consolidate_data(in)
         /\ rejected' = (rejected \/ (in.kind = "dict"
                                      /\ ~(RequiredKeys \subseteq DOMAIN in.obj)))
    /\ toolLog' = Append(toolLog, "consolidate")
    /\ UNCHANGED <<raceVars, publishedIn, variant, appVars, apc, llm, obedient, image_exists,
                   artisan_id, artisan_note, darpan, katha, record, price,
                   published, output>>

\* the publishing agent invokes the Web Publishing Tool (step 5)
PrasarPublish ==
    /\ variant = "agent"
    /\ apc = "prasar"
    /\ Len(toolLog) < MaxAgentSteps
    /\ obedient => toolLog = <<"price", "consolidate">>
    /\ \E in \in (IF obedient THEN {consolidated.out} ELSE ToolInputs),
          h \in DescriptionHashes :
         /\ published' = publish_to_web_gallery(in, h)
         /\ publishedIn' = in
    /\ toolLog' = Append(toolLog, "publish")
    /\ UNCHANGED <<raceVars, variant, appVars, apc, llm, obedient, image_exists,
                   artisan_id, artisan_note, darpan, katha, record, price,
                   consolidated, rejected, output>>

\* the publishing agent gives its final answer (step 6), which run_workflow
\* returns as result['output']
PrasarFinish ==
    /\ variant = "agent"
    /\ apc = "prasar"
    /\ obedient => toolLog = <<"price", "consolidate", "publish">>
    /\ \E answer \in (IF obedient THEN {published}
                      ELSE {published,
                            [NoPublish EXCEPT !.status = "other text"]}) :
         output' = answer
    /\ apc' = "done"
    /\ UNCHANGED <<raceVars, publishedIn, variant, appVars, llm, obedient, image_exists, artisan_id,
                   artisan_note, darpan, katha, record, toolLog, price,
                   consolidated, published, rejected>>

\* ------------------------------------- app.py: two concurrent requests
\* Two sessions of the Streamlit server run main at the same time, in one
\* process and one working directory; each user uploads an image of their own.
Requests == {1, 2}

RaceNames == {"a.jpg", "b.jpg"}

RacePaths == {UploadPath(n) : n \in RaceNames}
             \cup {ProcessedPath(UploadPath(n)) : n \in RaceNames}

\* what a file holds: the request whose upload it is (0: no file), and
\* whether it is the background-removed image
NoFile == [owner |-> 0, processed |-> FALSE]

NoImage == [rendered |-> FALSE, image |-> "", owner |-> 0, processed |-> FALSE]

RaceIdle ==
    /\ rname = [r \in Requests |-> "a.jpg"]
    /\ rpc = [r \in Requests |-> "off"]
    /\ rsession = [r \in Requests |-> ""]
    /\ disk = [p \in RacePaths |-> NoFile]
    /\ inflight = [r \in Requests |-> [exists |-> FALSE, content |-> NoFile]]
    /\ rresults = [r \in Requests |-> EmptyDict]
    /\ rshown = [r \in Requests |-> NoImage]

\* both API keys are set and both notes are non-empty
RaceInit ==
    /\ rname \in [Requests -> RaceNames]
    /\ rpc = [r \in Requests |-> "form"]
    /\ rsession = [r \in Requests |-> ""]
    /\ disk = [p \in RacePaths |-> NoFile]
    /\ inflight = [r \in Requests |-> [exists |-> FALSE, content |-> NoFile]]
    /\ rresults = [r \in Requests |-> EmptyDict]
    /\ rshown = [r \in Requests |-> NoImage]

\* main: the upload of request r is written under its file name
RUpload(r) ==
    /\ rpc[r] = "form"
    /\ rsession[r] = ""
    /\ disk' = [disk EXCEPT ![UploadPath(rname[r])] =
                                 [owner |-> r, processed |-> FALSE]]
    /\ rsession' = [rsession EXCEPT ![r] = UploadPath(rname[r])]
    /\ UNCHANGED <<variant, appVars, agentVars, rname, rpc, inflight,
                   rresults, rshown>>

\* main: the Generate Listing button of request r
RSubmit(r) ==
    /\ rpc[r] = "form"
    /\ rsession[r] # ""
    /\ rpc' = [rpc EXCEPT ![r] = "task1"]
    /\ rresults' = [rresults EXCEPT ![r] = EmptyDict]
    /\ UNCHANGED <<variant, appVars, agentVars, rname, rsession, disk,
                   inflight, rshown>>

\* remove_background, first half: the file at the session's path is looked
\* for, read and posted
RPost(r) ==
    /\ rpc[r] = "task1"
    /\ inflight' = [inflight EXCEPT ![r] =
                        [exists |-> disk[rsession[r]].owner # 0,
                         content |-> disk[rsession[r]]]]
    /\ rpc' = [rpc EXCEPT ![r] = "posting"]
    /\ UNCHANGED <<variant, appVars, agentVars, rname, rsession, disk,
                   rresults, rshown>>

\* remove_background, second half, and the rest of Task 1: the answer is
\* written to the processed path and the result recorded
RRecord(r) ==
    /\ rpc[r] = "posting"
    /\ \E remote \in RemoteOutcomes, writeOk \in BOOLEAN :
         LET res == remove_background(TRUE, rsession[r], inflight[r].exists,
                                      remote, writeOk)
         IN /\ disk' = [p \in RacePaths |->
                          IF p \in res.written
                          THEN [owner |-> inflight[r].content.owner,
                                processed |-> TRUE]
                          ELSE disk[p]]
            /\ rresults' = [rresults EXCEPT ![r] =
                 IF "error" \in DOMAIN res.result
                 THEN DictSet(DictSet(rresults[r], "processed_image_path",
                                      JStr(rsession[r])),
                              "error_bg_removal", res.result["error"])
                 ELSE DictSet(rresults[r], "processed_image_path",
                              res.result["processed_image_path"])]
    /\ rpc' = [rpc EXCEPT ![r] = "task2"]
    /\ UNCHANGED <<variant, appVars, agentVars, rname, rsession, inflight,
                   rshown>>

\* main, Tasks 2 and 3 of request r, which touch no file (one step; the
\* hash of the note takes one value)
RContent(r) ==
    /\ rpc[r] = "task2"
    /\ \E reply \in {Text(FALSE, "malformed", EmptyDict)} \cup
                    {Text(FALSE, "object",
                          MkObj(JAbsent, JAbsent, JAbsent, e, i, b)) :
                        e \in ErrorOpts, i \in ImagePathOpts,
                        b \in BgErrorOpts} :
         LET m == MergeContent(rresults[r],
                               generate_creative_content("none", reply))
         IN rresults' = [rresults EXCEPT ![r] =
                           IF m.raised THEN m.results
                           ELSE DictSet(m.results, "mock_url",
                                        MockUrl(Rep(MaxDigits)))]
    /\ rpc' = [rpc EXCEPT ![r] = "render"]
    /\ UNCHANGED <<variant, appVars, agentVars, rname, rsession, disk,
                   inflight, rshown>>

\* main: display_results of request r; st.image reads the file it is given
RRender(r) ==
    /\ rpc[r] = "render"
    /\ LET d == display_results(rresults[r], 0, rsession[r],
                                {p \in RacePaths : disk[p].owner # 0})
       IN rshown' = [rshown EXCEPT ![r] =
                        [rendered |-> TRUE, image |-> d.image,
                         owner |-> disk[d.image].owner,
                         processed |-> disk[d.image].processed]]
    /\ rpc' = [rpc EXCEPT ![r] = "shown"]
    /\ UNCHANGED <<variant, appVars, agentVars, rname, rsession, disk,
                   inflight, rresults>>

\* ---------------------------------------------------------- specification
Init ==
    \/ variant = "app" /\ AppInit /\ AgentIdle /\ RaceIdle
    \/ variant = "agent" /\ AgentInit /\ AppIdle /\ RaceIdle

Next ==
    \/ Stop
    \/ Upload
    \/ EnvDelete
    \/ Submit
    \/ Task1
    \/ Task2
    \/ Task3
    \/ Render
    \/ RunWorkflow
    \/ Darpan
    \/ Katha
    \/ Prepare
    \/ PrasarPrice
    \/ PrasarConsolidate
    \/ PrasarPublish
    \/ PrasarFinish

Spec == Init /\ [][Next]_vars

InitRace == variant = "race" /\ AppIdle /\ AgentIdle /\ RaceInit

NextRace ==
    \E r \in Requests :
        \/ RUpload(r)
        \/ RSubmit(r)
        \/ RPost(r)
        \/ RRecord(r)
        \/ RContent(r)
        \/ RRender(r)

\* two requests of app.py, their steps interleaved
SpecRace == InitRace /\ [][NextRace]_vars

\* ------------------------------------------------------------ properties
Range(f) == {f[i] : i \in DOMAIN f}

ListingKeys == {"processed_image_path", "description", "hashtags", "price",
                "mock_url"}

ContentKeys == {"description", "hashtags", "price"}

\* C1: whatever the photo stage and the content stage produce, main reaches
\* finalization and display_results receives a result with image path,
\* description, hashtags, price and mock_url.
C1_CompleteListing ==
    pc = "shown" =>
        /\ status = "complete"
        /\ "finalize" \in Range(events)
        /\ shown.rendered
        /\ ListingKeys \subseteq DOMAIN final_results

\* the generation returned text that is malformed JSON, or a JSON object
\* that lacks one of description, hashtags, price
BadReply ==
    /\ content.called
    /\ content.raisedAt = "none"
    /\ \/ content.text.kind = "malformed"
       \/ /\ content.text.kind = "object"
          /\ ~(ContentKeys \subseteq DOMAIN content.text.obj)

\* C2: for malformed JSON or a JSON object missing description, hashtags or
\* price, generate_creative_content yields an error result (a JSON object
\* with the key "error"), nothing is raised, and main applies the content
\* fallback values.
C2_BadReplyIsFailed ==
    BadReply =>
        /\ content.text.kind = "object"
        /\ "error" \in DOMAIN content.text.obj
        /\ status # "error"
        /\ \A k \in ContentKeys :
              k \in DOMAIN final_results /\ final_results[k] = ContentFallback[k]

\* C3: once consolidate_data has refused a record for a missing required key,
\* whatever the order of the publishing agent's tool invocations, the publish
\* tool is not run and no SUCCESS result exists for the request.
C3_NoPublishAfterReject ==
    rejected =>
        /\ "publish" \notin Range(toolLog)
        /\ published.status # "SUCCESS"
        /\ output.status # "SUCCESS"

\* C4: price precedence of display_results: a positive user price is the
\* primary price and a numeric AI price its secondary annotation; otherwise
\* a numeric AI price is primary; with user price 0 and an absent or
\* non-numeric AI price the display is N/A.  Non-numeric means any JSON value
\* that is not a number.
C4_PricePrecedence ==
    shown.rendered =>
        LET ai == DictGet(final_results, "price")
            numeric == ai.t = "number"
        IN /\ user_price > 0 =>
                /\ shown.priceLabel = "Your Selling Price"
                /\ shown.priceCents = user_price
                /\ shown.aiNote = numeric
                /\ numeric => shown.aiCents = ai.n
           /\ (user_price = 0 /\ numeric) =>
                /\ shown.priceLabel = "AI Recommended Price"
                /\ shown.priceCents = ai.n
                /\ ~shown.aiNote
           /\ (user_price = 0 /\ ~numeric) =>
                /\ shown.priceLabel = "Recommended Price"
                /\ ~shown.aiNote

PhotoFailed == photo.called /\ "error" \in DOMAIN photo.result

PhotoSucceeded == photo.called /\ "error" \notin DOMAIN photo.result

\* C5: what is displayed has an image: after a failed photo stage the
\* original upload with the photo stage's error recorded, after a successful
\* one the processed image, or the original when the processed file is not
\* found; the image field of the result is never empty.
C5_DisplayableImage ==
    shown.rendered =>
        /\ shown.image # ""
        /\ "processed_image_path" \in DOMAIN final_results
        /\ Truthy(final_results["processed_image_path"])
        /\ PhotoFailed =>
              /\ shown.image = original_image_path
              /\ final_results["processed_image_path"] = JStr(original_image_path)
              /\ shown.bgError = photo.result["error"]
        /\ PhotoSucceeded =>
              /\ shown.bgError = JNull
              /\ shown.image = IF ProcessedPath(original_image_path) \in files
                               THEN ProcessedPath(original_image_path)
                               ELSE original_image_path

\* C6: for an image path that is no existing file, remove_background returns
\* an error result with the file-not-found message, makes no remote call and
\* writes no file, and enhance_image returns its error string.
C6_MissingFileNoCall ==
    /\ (photo.called /\ ~photo.exists) =>
          /\ DOMAIN photo.result = {"error"}
          /\ photo.result["error"] = JStr(MsgNoFile)
          /\ photo.calls = 0
          /\ photo.written = {}
          /\ remoteCalls = 0
          /\ ProcessedPath(original_image_path) \notin files
    /\ (darpan.done /\ ~image_exists) => darpan.out = MsgNoImage

C6_Witness ==
    /\ pc = "shown"
    /\ photo.called
    /\ ~photo.exists
    /\ shown.bgError = JStr(MsgNoFile)

InstructedOrder == <<"price", "consolidate", "publish">>

\* C7: run_workflow with an existing image, the agents following the
\* instructed tool order, returns the publish tool's message: SUCCESS, the
\* gallery URL prefix and the artisan id passed in.
C7_WorkflowSucceeds ==
    (apc = "done" /\ obedient /\ image_exists /\ toolLog = InstructedOrder) =>
        /\ output = published
        /\ output.status = "SUCCESS"
        /\ output.prefix = GalleryPrefix
        /\ output.artisan_id = JStr(artisan_id)
        /\ consolidated.ok
        /\ RequiredKeys \subseteq DOMAIN publishedIn.obj

C7_Witness ==
    /\ apc = "done"
    /\ obedient
    /\ image_exists
    /\ toolLog = InstructedOrder
    /\ artisan_id = "artisan_lc8765"
    /\ output.status = "SUCCESS"

\* the description publish_to_web_gallery hashes
PublishedDescription ==
    IF "description" \in DOMAIN publishedIn.obj
    THEN publishedIn.obj["description"] ELSE JStr("")

\* C8 as stated: for every input string publish_to_web_gallery returns a
\* SUCCESS message and never an error result.
C8_AlwaysSuccess ==
    "publish" \in Range(toolLog) => published.status = "SUCCESS"

\* C8 amended: publish_to_web_gallery returns the SUCCESS message, with the
\* URL formed from the artisan identifier (or 'unknown_artisan') and the hash
\* of the description modulo 10000, exactly when its input is a JSON object
\* whose description is hashable; for any other input it returns an
\* 'Error publishing' string.  It never raises.
C8_SuccessIffObject ==
    "publish" \in Range(toolLog) =>
        IF publishedIn.kind = "dict" /\ ~Unhashable(PublishedDescription)
        THEN /\ published.status = "SUCCESS"
             /\ published.prefix = GalleryPrefix
             /\ published.artisan_id =
                   IF "artisan_id" \in DOMAIN publishedIn.obj
                   THEN publishedIn.obj["artisan_id"]
                   ELSE JStr("unknown_artisan")
             /\ published.product_id \in 0..(ProductIdModulus - 1)
        ELSE published.status = "Error publishing"

C8_Witness ==
    /\ "publish" \in Range(toolLog)
    /\ publishedIn.kind = "dict"
    /\ "artisan_id" \notin DOMAIN publishedIn.obj
    /\ published.status = "SUCCESS"
    /\ published.product_id > 0

\* C9 as stated: the publish URL is the fixed prefix followed by a suffix of
\* exactly 6 characters, for every value of the hash.
C9_SuffixExactlySix ==
    "mock_url" \in DOMAIN final_results =>
        /\ final_results["mock_url"].s = UrlPrefix
        /\ Len(final_results["mock_url"].q) = SuffixWidth

\* C9 amended: the publish URL is the fixed prefix followed by the first 6
\* characters of the decimal text of the hash (a leading '-' included): the
\* suffix has at most 6 characters, and exactly 6 when that text has at
\* least 6.
C9_SuffixAtMostSix ==
    "mock_url" \in DOMAIN final_results =>
        LET url == final_results["mock_url"]
            text == StrInt(noteHash)
        IN /\ url.t = "string"
           /\ url.s = UrlPrefix
           /\ Len(url.q) >= 1
           /\ Len(url.q) <= SuffixWidth
           /\ Len(text) >= SuffixWidth => Len(url.q) = SuffixWidth
           /\ Len(text) < SuffixWidth => Len(url.q) = Len(text)
           /\ \A i \in 1..Len(url.q) : url.q[i] = text[i]
           /\ noteHash < 0 => url.q[1] = "-"

C9_Witness ==
    /\ pc = "shown"
    /\ noteHash < 0
    /\ "mock_url" \in DOMAIN final_results
    /\ Len(final_results["mock_url"].q) = 3
    /\ shown.mock_url = final_results["mock_url"]

StageOrder == <<"photo_call", "photo_recorded", "content_call",
                "content_recorded", "finalize", "display">>

\* the steps of a request whose content stage ended in the handler of main
RaisedOrder == <<"photo_call", "photo_recorded", "content_call", "display">>

IsPrefix(a, b) == Len(a) <= Len(b) /\ a = SubSeq(b, 1, Len(a))

\* C10: the stages of a request run in the order photo, content,
\* finalization; each external capability is invoked at most once; the
\* content stage starts after the photo stage has returned, after a success
\* and after a failure alike; finalization comes after both results are
\* recorded.
C10_StageOrder ==
    /\ remoteCalls <= 1
    /\ genCalls <= 1
    /\ IsPrefix(events, StageOrder) \/ IsPrefix(events, RaisedOrder)
    /\ content.called => photo.called
    /\ pc \in {"task3", "render", "shown"} =>
          /\ photo.called
          /\ content.called
          /\ "content_call" \in Range(events)
    /\ "finalize" \in Range(events) =>
          /\ "photo_recorded" \in Range(events)
          /\ "content_recorded" \in Range(events)
          /\ "processed_image_path" \in DOMAIN final_results

C10_Witness ==
    /\ pc = "shown"
    /\ PhotoFailed
    /\ remoteCalls = 1
    /\ content.raisedAt = "invoke"
    /\ genCalls = 1
    /\ events = StageOrder

\* the content stage returned an object that main parsed and merged
ContentMerged ==
    /\ "content_recorded" \in Range(events)
    /\ content.text.kind = "object"

\* C12: merging a parsed content object, whatever its keys, leaves the image
\* path and the background-removal error that Task 1 recorded unchanged.
C12_PhotoResultKept ==
    ContentMerged =>
        /\ "processed_image_path" \in DOMAIN final_results
        /\ final_results["processed_image_path"] =
              IF PhotoFailed THEN JStr(original_image_path)
              ELSE photo.result["processed_image_path"]
        /\ ("error_bg_removal" \in DOMAIN final_results) = PhotoFailed
        /\ PhotoFailed => final_results["error_bg_removal"] = photo.result["error"]

\* the content stage returned an error result: a JSON object with "error"
ContentErrorResult ==
    /\ content.called
    /\ content.text.kind = "object"
    /\ "error" \in DOMAIN content.text.obj

\* C13: after an error result of the content stage main substitutes the
\* description 'N/A', an empty hashtag list and the price 0; display_results
\* takes that 0 for a numeric AI price: with user price 0 the primary price
\* is 'AI Recommended Price' 0.00, not N/A, and with a positive user price an
\* 'AI Suggestion' of 0.00 is the secondary annotation.
C13_FallbackPriceShown ==
    (ContentErrorResult /\ pc \in {"task3", "render", "shown"}) =>
        /\ status # "error"
        /\ \A k \in ContentKeys :
              k \in DOMAIN final_results /\ final_results[k] = ContentFallback[k]
        /\ final_results["description"] = JStr("N/A")
        /\ final_results["hashtags"].t = "list" /\ final_results["hashtags"].n = 0
        /\ final_results["price"] = JNum(0)
        /\ shown.rendered =>
              /\ shown.description = JStr("N/A")
              /\ shown.hashtags = JNull
              /\ user_price = 0 =>
                    /\ shown.priceLabel = "AI Recommended Price"
                    /\ shown.priceCents = 0
                    /\ ~shown.aiNote
              /\ user_price > 0 =>
                    /\ shown.priceLabel = "Your Selling Price"
                    /\ shown.priceCents = user_price
                    /\ shown.aiNote
                    /\ shown.aiCents = 0

C13_Witness ==
    /\ pc = "shown"
    /\ content.raisedAt = "invoke"
    /\ ContentErrorResult
    /\ user_price = 0
    /\ shown.priceLabel = "AI Recommended Price"
    /\ shown.priceCents = 0

====
